---- MODULE Spec2Model ----
(***************************************************************************)
(* Street coverage engine of everystreet: WacoStreetsAnalyzer and the      *)
(* callers that drive it (create_app start-up, /update_progress,           *)
(* /reset_progress, DataProcessor.process_routes_and_update_progress).     *)
(*                                                                         *)
(* Coordinates are integers.  One grid unit is the analyzer's default      *)
(* snap_distance (0.00001 degrees), so snap_distance = 1 is the value the  *)
(* constructor sets and snap_distance = 0 is an exact-match tolerance.     *)
(* Every action runs one task from one await point to the next, which is   *)
(* the granularity at which the asyncio event loop interleaves tasks.      *)
(***************************************************************************)
EXTENDS Integers, Sequences, FiniteSets, TLC

(***************************************************************************)
(* Bounds                                                                  *)
(***************************************************************************)
\* longest list of trip features held in historical_geojson_features
MaxBatch == 2
\* number of completed update_progress calls remembered by the history log
MaxLog == 2
\* most vertices of a street polyline given to _process_linestring
MaxVertices == 4

(***************************************************************************)
(* Values                                                                  *)
(***************************************************************************)
\* a (Geo)DataFrame attribute is None or a frame with rows
NoneGdf == [none |-> TRUE, rows |-> <<>>]

Gdf(rows) == [none |-> FALSE, rows |-> rows]

\* DataFrame.empty
IsEmpty(g) == Len(g.rows) = 0

Range(s) == {s[k] : k \in 1..Len(s)}

Min2(a, b) == IF a <= b THEN a ELSE b

Max2(a, b) == IF a >= b THEN a ELSE b

RECURSIVE SeqMin(_)
SeqMin(s) == IF Len(s) = 1 THEN s[1] ELSE Min2(s[1], SeqMin(Tail(s)))

RECURSIVE SeqMax(_)
SeqMax(s) == IF Len(s) = 1 THEN s[1] ELSE Max2(s[1], SeqMax(Tail(s)))

RECURSIVE Concat(_)
Concat(ss) == IF Len(ss) = 0 THEN <<>> ELSE Head(ss) \o Concat(Tail(ss))

(***************************************************************************)
(* Geometry (shapely): bounds, distance                                    *)
(***************************************************************************)
\* shapely LineString.bounds = (minx, miny, maxx, maxy)
Bounds(coords) ==
    LET xs == [k \in 1..Len(coords) |-> coords[k][1]]
        ys == [k \in 1..Len(coords) |-> coords[k][2]]
    IN  <<SeqMin(xs), SeqMin(ys), SeqMax(xs), SeqMax(ys)>>

\* a box test that leaves out boxes which only touch
BoxesOverlap(a, b) ==
    /\ a[1] < b[3]
    /\ b[1] < a[3]
    /\ a[2] <= b[4]
    /\ b[2] <= a[4]

\* rtree: two boxes intersect when they overlap or touch
BoxesIntersect(a, b) ==
    /\ a[1] <= b[3]
    /\ b[1] <= a[3]
    /\ a[2] <= b[4]
    /\ b[2] <= a[4]

Cross(o, p, q) == (p[1] - o[1]) * (q[2] - o[2]) - (p[2] - o[2]) * (q[1] - o[1])

Dot(o, p, q) == (p[1] - o[1]) * (q[1] - o[1]) + (p[2] - o[2]) * (q[2] - o[2])

Sq(o, p) == Dot(o, p, p)

\* distance from point p to the segment a-b is at most d
PointNear(p, a, b, d) ==
    LET len2 == Sq(a, b)
        t    == Dot(a, p, b)
    IN  IF len2 = 0 \/ t <= 0 THEN Sq(a, p) <= d * d
        ELSE IF t >= len2 THEN Sq(b, p) <= d * d
        ELSE Cross(a, b, p) * Cross(a, b, p) <= d * d * len2

\* the segments a1-a2 and b1-b2 cross in their interiors
ProperCross(a1, a2, b1, b2) ==
    /\ Cross(a1, a2, b1) * Cross(a1, a2, b2) < 0
    /\ Cross(b1, b2, a1) * Cross(b1, b2, a2) < 0

\* distance between the segments a1-a2 and b1-b2 is at most d
SegmentsNear(a1, a2, b1, b2, d) ==
    \/ ProperCross(a1, a2, b1, b2)
    \/ PointNear(a1, b1, b2, d)
    \/ PointNear(a2, b1, b2, d)
    \/ PointNear(b1, a1, a2, d)
    \/ PointNear(b2, a1, a2, d)

\* line.distance(segment.geometry) <= d, line a polyline, seg a two-point line
DistanceWithin(line, seg, d) ==
    \E k \in 1..(Len(line) - 1) :
        SegmentsNear(line[k], line[k + 1], seg[1], seg[2], d)

(***************************************************************************)
(* Inputs: street networks (static/Waco-Streets.geojson) and trip features *)
(***************************************************************************)
Line(parts) == [type |-> "LineString", parts |-> parts]

MultiLine(parts) == [type |-> "MultiLineString", parts |-> parts]

\* one street with three vertices: segments [(0,0),(1,0)] and [(1,0),(2,0)]
NetworkLine == << Line(<< << <<0, 0>>, <<1, 0>>, <<2, 0>> >> >>) >>

\* a street made of two disconnected parts, [(0,0),(1,0)] and
\* [(2,0),(3,0)], and a one-segment street [(0,1),(1,1)]
NetworkMulti ==
    << MultiLine(<< << <<0, 0>>, <<1, 0>> >>, << <<2, 0>>, <<3, 0>> >> >>),
       Line(<< << <<0, 1>>, <<1, 1>> >> >>) >>

\* one street with segments of length two: [(0,0),(2,0)] and [(2,0),(4,0)]
NetworkLong == << Line(<< << <<0, 0>>, <<2, 0>>, <<4, 0>> >> >>) >>

\* a source file without features: gpd.read_file gives an empty frame
NetworkEmpty == <<>>

\* (source file, snap_distance) pairs an analyzer is run with
Configs ==
    { <<NetworkLine, 0>>, <<NetworkLine, 1>>, <<NetworkMulti, 1>>,
      <<NetworkLong, 0>>, <<NetworkEmpty, 1>> }

NoGeometry == [none |-> TRUE, type |-> "", coordinates |-> <<>>]

Geometry(type, coordinates) ==
    [none |-> FALSE, type |-> type, coordinates |-> coordinates]

Feature(ts, geometry) == [timestamp |-> ts, geometry |-> geometry]

\* trip [(0,0),(1,0)]
TripA == Feature(1, Geometry("LineString", << <<0, 0>>, <<1, 0>> >>))

\* trip [(0,0),(2,0)]
TripB == Feature(3, Geometry("LineString", << <<0, 0>>, <<2, 0>> >>))

\* trip [(0,1),(2,1)], one unit north of the street y = 0
TripC == Feature(5, Geometry("LineString", << <<0, 1>>, <<2, 1>> >>))

\* a LineString with two coordinates, the second one not a coordinate pair
TripBadCoords == Feature(2, Geometry("LineString", << <<0, 0>>, <<1>> >>))

\* a record whose geometry is null
TripNoGeometry == Feature(4, NoGeometry)

\* a LineString with a single coordinate
TripShort == Feature(6, Geometry("LineString", << <<0, 0>> >>))

\* trip [(-1,-1),(-1,1),(3,1)]: it goes round the street y = 0 at distance
\* 1, and its bounding box holds the street
TripD == Feature(7, Geometry("LineString", << <<-1, -1>>, <<-1, 1>>, <<3, 1>> >>))

Features ==
    {TripA, TripB, TripC, TripD, TripBadCoords, TripNoGeometry, TripShort}

\* what the monthly files may hold when the process starts: up to MaxBatch
\* records in timestamp order
FileLists ==
    {s \in UNION {[1..n -> Features] : n \in 0..MaxBatch} :
        \A j \in 1..Len(s) : \A k \in 1..Len(s) :
            j < k => s[j].timestamp < s[k].timestamp}

(***************************************************************************)
(* Segment store: _process_and_cache_data, _create_segments                *)
(***************************************************************************)
\* gpd.read_file plus the street_id column taken from the row index
ReadStreets(source) ==
    Gdf([k \in 1..Len(source) |->
            [street_id |-> k - 1, type |-> source[k].type,
             parts |-> source[k].parts]])

\* segment_id is f"{street_id}_{i}"
SegmentId(street_id, i) == <<street_id, i>>

\* a segmenter that starts every segment at the first vertex
_process_linestring_fan(coords, street_id) ==
    [k \in 1..(Len(coords) - 1) |->
        [geometry   |-> <<coords[1], coords[k + 1]>>,
         street_id  |-> street_id,
         segment_id |-> SegmentId(street_id, k - 1)]]

_process_linestring(coords, street_id) ==
    [k \in 1..(Len(coords) - 1) |->
        [geometry   |-> <<coords[k], coords[k + 1]>>,
         street_id  |-> street_id,
         segment_id |-> SegmentId(street_id, k - 1)]]

StreetSegments(row) ==
    IF row.type = "LineString"
    THEN _process_linestring(row.parts[1], row.street_id)
    ELSE IF row.type = "MultiLineString"
    THEN Concat([k \in 1..Len(row.parts) |->
                    _process_linestring(row.parts[k], row.street_id)])
    ELSE <<>>

_create_segments(streets) ==
    Gdf(Concat([k \in 1..Len(streets.rows) |-> StreetSegments(streets.rows[k])]))

\* the rtree built by initialize: position in segments_gdf -> bounds
BuildIndex(segments) ==
    [k \in 1..Len(segments.rows) |-> Bounds(segments.rows[k].geometry)]

\* sindex.intersection(bounds): positions whose box intersects the query box
IndexIntersection(idx, bounds) ==
    {k \in 1..Len(idx) : BoxesIntersect(idx[k], bounds)}

(***************************************************************************)
(* Persistence: pickle.dumps on save, yaml.load on load                    *)
(***************************************************************************)
Snapshot(streets, segments, traveled) ==
    [streets_gdf |-> streets, segments_gdf |-> segments,
     traveled_segments |-> traveled]

NoSnapshot == Snapshot(NoneGdf, NoneGdf, {})

\* no cache file
NoFile == [exists |-> FALSE, whole |-> FALSE, format |-> "", obj |-> NoSnapshot]

\* the file as open(cache_file, "wb") leaves it: created or truncated, empty
EmptyFile == [exists |-> TRUE, whole |-> FALSE, format |-> "", obj |-> NoSnapshot]

\* the bytes pickle.dumps produces for a snapshot
PickleDumps(obj) == [exists |-> TRUE, whole |-> TRUE, format |-> "pickle", obj |-> obj]

\* yaml.load(bytes, Loader=yaml.FullLoader): a pickle stream starts with the
\* byte 0x80, which is not valid UTF-8, so the YAML reader raises; an empty
\* stream loads as None; a YAML document loads as the mapping it describes
YamlLoad(file) ==
    IF ~file.whole THEN [kind |-> "none", obj |-> NoSnapshot]
    ELSE IF file.format = "yaml" THEN [kind |-> "mapping", obj |-> file.obj]
    ELSE [kind |-> "error", obj |-> NoSnapshot]

(***************************************************************************)
(* Route matcher: the body of update_progress                              *)
(***************************************************************************)
\* feature["geometry"]["type"]: subscripting a null geometry raises TypeError
FilterRaises(routes) == \E k \in 1..Len(routes) : routes[k].geometry.none

IsValidFeature(f) ==
    /\ f.geometry.type = "LineString"
    /\ Len(f.geometry.coordinates) > 1

\* the valid_features list comprehension
ValidFeatures(routes) == SelectSeq(routes, IsValidFeature)

\* GeoDataFrame.from_features: shapely rejects a coordinate that is not a pair
FromFeaturesRaises(valid) ==
    \E k \in 1..Len(valid) :
        \E c \in Range(valid[k].geometry.coordinates) : Len(c) < 2

\* the geometry column of the frame from_features builds
FromFeatures(valid) == [k \in 1..Len(valid) |-> valid[k].geometry.coordinates]

\* a matcher that takes every index candidate, whatever its distance
MatchRouteCandidates(line, segments, idx, snap) ==
    {segments.rows[k].segment_id :
        k \in {c \in IndexIntersection(idx, Bounds(line)) : snap >= 0}}

\* segment ids one route adds: index candidates within snap_distance
MatchRoute(line, segments, idx, snap) ==
    {segments.rows[k].segment_id :
        k \in {c \in IndexIntersection(idx, Bounds(line)) :
                 DistanceWithin(line, segments.rows[c].geometry, snap)}}

\* a set update that keeps only the ids of the last route
MarkTraveledReplace(traveled, ids) == ids

\* a set update that flips membership instead of adding
MarkTraveledToggle(traveled, ids) == (traveled \ ids) \cup (ids \ traveled)

\* traveled_segments.add for every matched id
MarkTraveled(traveled, ids) == traveled \cup ids

\* what one update_progress(routes) call that runs alone leaves in
\* traveled_segments: nothing on an early return, on a raising filter or on
\* a raising from_features, else the matches of every valid route
UpdateResult(traveled, routes, segments, idx, snap) ==
    IF segments.none \/ Len(routes) = 0 \/ FilterRaises(routes) THEN traveled
    ELSE IF Len(ValidFeatures(routes)) = 0 THEN traveled
    ELSE IF FromFeaturesRaises(ValidFeatures(routes)) THEN traveled
    ELSE LET gdf == FromFeatures(ValidFeatures(routes))
         IN  MarkTraveled(traveled,
                 UNION {MatchRoute(gdf[k], segments, idx, snap) :
                           k \in 1..Len(gdf)})

(***************************************************************************)
(* Coverage calculator                                                     *)
(***************************************************************************)
\* a calculator that takes the street count for the segment total
calculate_progress_streets(streets, segments, traveled) ==
    IF segments.none
    THEN [coverage_percentage |-> [num |-> 0, den |-> 1], total_streets |-> 0,
          traveled_streets |-> 0, total_segments |-> 0, traveled_segments |-> 0]
    ELSE [coverage_percentage |->
              [num |-> Cardinality(traveled) * 100, den |-> Len(streets.rows)],
          total_streets |-> Len(streets.rows),
          traveled_streets |-> 0,
          total_segments |-> Len(streets.rows),
          traveled_segments |-> Cardinality(traveled)]

\* a calculator that counts a street as traveled only when every one of its
\* segments is traveled
calculate_progress_every(streets, segments, traveled) ==
    IF segments.none
    THEN [coverage_percentage |-> [num |-> 0, den |-> 1], total_streets |-> 0,
          traveled_streets |-> 0, total_segments |-> 0, traveled_segments |-> 0]
    ELSE LET rows == 1..Len(segments.rows)
             complete == {segments.rows[k].street_id : k \in
                            {r \in rows : \A q \in rows :
                               segments.rows[q].street_id =
                                   segments.rows[r].street_id
                                 => segments.rows[q].segment_id \in traveled}}
         IN  [coverage_percentage |->
                  [num |-> Cardinality(traveled) * 100,
                   den |-> Len(segments.rows)],
              total_streets |-> Len(streets.rows),
              traveled_streets |-> Cardinality(complete),
              total_segments |-> Len(segments.rows),
              traveled_segments |-> Cardinality(traveled)]

\* coverage_percentage is the rational num / den
calculate_progress(streets, segments, traveled) ==
    IF segments.none
    THEN [coverage_percentage |-> [num |-> 0, den |-> 1], total_streets |-> 0,
          traveled_streets |-> 0, total_segments |-> 0, traveled_segments |-> 0]
    ELSE LET total_segments == Len(segments.rows)
             n_traveled == Cardinality(traveled)
             owners == {segments.rows[k].street_id :
                          k \in {r \in 1..Len(segments.rows) :
                                   segments.rows[r].segment_id \in traveled}}
         IN  [coverage_percentage |->
                  IF total_segments > 0
                  THEN [num |-> n_traveled * 100, den |-> total_segments]
                  ELSE [num |-> 0, den |-> 1],
              total_streets |-> Len(streets.rows),
              traveled_streets |-> Cardinality(owners),
              total_segments |-> total_segments,
              traveled_segments |-> n_traveled]

(***************************************************************************)
(* Boundary views: get_progress_geojson                                    *)
(***************************************************************************)
\* a boundary polygon (static/boundaries/<name>.geojson) is a rectangle
\* (minx, miny, maxx, maxy) with its border; NoBoundary is "none"
NoBoundary == <<>>

\* a boundary that touches S0 of the one-street network at (0,0) and lies
\* west of S1
BoundaryWest == <<-1, -1, 0, 1>>

\* a boundary around both networks
BoundaryAll == <<-1, -1, 3, 2>>

Boundaries == {NoBoundary, BoundaryWest, BoundaryAll}

InBox(p, box) ==
    /\ box[1] <= p[1]
    /\ p[1] <= box[3]
    /\ box[2] <= p[2]
    /\ p[2] <= box[4]

\* a filter that keeps every segment
IntersectsAny(geometry, box) == Len(geometry) = 2 /\ Len(box) = 4

\* GeoSeries.intersects: the two-point line and the closed rectangle share
\* a point
Intersects(geometry, box) ==
    LET sw == <<box[1], box[2]>>
        se == <<box[3], box[2]>>
        ne == <<box[3], box[4]>>
        nw == <<box[1], box[4]>>
    IN  /\ BoxesIntersect(Bounds(geometry), box)
        /\ \/ InBox(geometry[1], box)
           \/ InBox(geometry[2], box)
           \/ \E e \in {<<sw, se>>, <<se, ne>>, <<ne, nw>>, <<nw, sw>>} :
                 SegmentsNear(geometry[1], geometry[2], e[1], e[2], 0)

\* the features of the collection get_progress_geojson returns
get_progress_geojson(segments, traveled, waco_limits) ==
    IF segments.none THEN <<>>
    ELSE LET keep(row) == waco_limits = NoBoundary
                             \/ Intersects(row.geometry, waco_limits)
             filtered_segments == SelectSeq(segments.rows, keep)
         IN  [k \in 1..Len(filtered_segments) |->
                 [segment_id |-> filtered_segments[k].segment_id,
                  street_id  |-> filtered_segments[k].street_id,
                  traveled   |-> filtered_segments[k].segment_id \in traveled]]

\* GeoSeries.intersects on a street: one of the two-point pieces of one of
\* its parts shares a point with the rectangle
StreetIntersects(row, box) ==
    \E q \in 1..Len(row.parts) :
        \E k \in 1..(Len(row.parts[q]) - 1) :
            Intersects(<<row.parts[q][k], row.parts[q][k + 1]>>, box)

\* get_street_network: None without a store, else a copy of the streets
\* inside the boundary with the traveled tag
get_street_network(streets, segments, traveled, waco_limits) ==
    IF streets.none \/ segments.none THEN NoneGdf
    ELSE LET keep(row) == waco_limits = NoBoundary
                             \/ StreetIntersects(row, waco_limits)
             street_network == SelectSeq(streets.rows, keep)
             traveled_streets ==
                 {segments.rows[r].street_id :
                     r \in {q \in 1..Len(segments.rows) :
                              segments.rows[q].segment_id \in traveled}}
         IN  Gdf([k \in 1..Len(street_network) |->
                     [street_id |-> street_network[k].street_id,
                      traveled  |-> street_network[k].street_id
                                       \in traveled_streets]])

\* get_untraveled_streets: the streets none of whose segments is traveled,
\* inside the boundary
get_untraveled_streets(streets, segments, traveled, waco_limits) ==
    IF streets.none \/ segments.none THEN <<>>
    ELSE LET traveled_streets ==
                 {segments.rows[r].street_id :
                     r \in {q \in 1..Len(segments.rows) :
                              segments.rows[q].segment_id \in traveled}}
             keep(row) == /\ row.street_id \notin traveled_streets
                          /\ waco_limits = NoBoundary
                                \/ StreetIntersects(row, waco_limits)
         IN  SelectSeq(streets.rows, keep)

Filters == {"all", "traveled", "untraveled"}

\* a get_streets that ignores the filter
get_streets_unfiltered(street_network, streets_filter) ==
    IF street_network.none /\ streets_filter \in Filters
    THEN [error |-> TRUE, features |-> <<>>]
    ELSE [error |-> FALSE, features |-> street_network.rows]

\* DataProcessor.get_streets: the JSON document handed to the route
get_streets(street_network, streets_filter) ==
    IF street_network.none
    THEN [error |-> TRUE, features |-> <<>>]
    ELSE [error |-> FALSE,
          features |->
              IF streets_filter = "traveled"
              THEN SelectSeq(street_network.rows, LAMBDA row : row.traveled)
              ELSE IF streets_filter = "untraveled"
              THEN SelectSeq(street_network.rows, LAMBDA row : ~row.traveled)
              ELSE street_network.rows]

(***************************************************************************)
(* State                                                                   *)
(***************************************************************************)
VARIABLES
    streets_geojson,              \* disk: the street network source file
    cache_file,                   \* disk: waco_streets_cache.pkl
    monthly_files,                \* disk: static/historical_data_*.geojson
    snap_distance,                \* WacoStreetsAnalyzer.snap_distance
    streets_gdf,                  \* WacoStreetsAnalyzer.streets_gdf
    segments_gdf,                 \* WacoStreetsAnalyzer.segments_gdf
    traveled_segments,            \* WacoStreetsAnalyzer.traveled_segments
    sindex,                       \* WacoStreetsAnalyzer.sindex
    traveled_column,              \* segments_gdf["traveled"], a stored column
    lock,                         \* WacoStreetsAnalyzer.lock: holder or ""
    historical_geojson_features,  \* GeoJSONHandler.historical_geojson_features
    progress_lock,                \* app.progress_lock is held
    processing_lock,              \* app.processing_lock is held
    is_processing,                \* app.is_processing
    historical_data_loading,      \* app.historical_data_loading
    historical_data_loaded,       \* app.historical_data_loaded
    cache,                        \* routes.cache, the TTLCache of responses
    task,                         \* per task: where it is suspended, its locals
    event,                        \* history: what the last step did
    log,                          \* history: the update_progress calls that have
                                  \*          returned, one at a time, since
                                  \*          traveled_segments was last empty
    loaded                        \* history: the cache file initialize found,
                                  \*          kept until initialize is over

disk == <<streets_geojson, cache_file, monthly_files, snap_distance>>

engine == <<streets_gdf, segments_gdf, traveled_segments, sindex,
            traveled_column>>

flags == <<historical_data_loading, historical_data_loaded>>

app == <<lock, historical_geojson_features, progress_lock, processing_lock,
         is_processing, flags>>

web == <<cache>>

vars == <<disk, engine, app, web, task, event, log, loaded>>

\* create_app followed by the before_serving hook; a request to
\* /update_progress or a run of process_routes_and_update_progress; a request
\* to /reset_progress; a request to /api/load_historical_data; a run of
\* fetch_all_historical_data; a request to /update_historical_data
Procs == {"main", "upd", "rst", "load", "fetch", "hist"}

\* segments_gdf has no "traveled" column
NoColumn == [exists |-> FALSE, ids |-> {}]

\* a new TTLCache
EmptyCache == <<>>

\* no response of /waco_streets is recorded in the event
NoResponse == [key |-> <<>>, body |-> <<>>]

Task(pc, fn, entry) ==
    [pc |-> pc, fn |-> fn, entry |-> entry, routes |-> <<>>, valid |-> <<>>,
     gdf |-> <<>>, i |-> 0, off |-> 0, batch_size |-> 0, n |-> 0,
     cache_data |-> NoFile]

IdleTask == Task("idle", "", "")

NoLog == [count |-> 0, recent |-> <<>>]

\* more than MaxLog calls have returned, or requests have overlapped: the
\* log no longer tells the calls apart
LogFull == [count |-> MaxLog + 1, recent |-> <<>>]

Event(kind, p) ==
    [kind |-> kind, p |-> p, returned |-> <<>>, raised |-> <<>>,
     reset |-> FALSE, ended |-> "", before |-> {}, response |-> NoResponse]

\* what calculate_progress() returns in the current state
Progress == calculate_progress(streets_gdf, segments_gdf, traveled_segments)

\* the state WacoStreetsAnalyzer.__init__ and create_app leave before initialize()
Constructed ==
    /\ streets_gdf = NoneGdf
    /\ segments_gdf = NoneGdf
    /\ traveled_segments = {}
    /\ sindex = <<>>
    /\ traveled_column = NoColumn
    /\ lock = ""
    /\ historical_geojson_features = <<>>
    /\ progress_lock = FALSE
    /\ processing_lock = FALSE
    /\ is_processing = FALSE
    /\ historical_data_loading = FALSE
    /\ historical_data_loaded = FALSE
    /\ cache = EmptyCache
    /\ task = [p \in Procs |->
                 IF p = "main" THEN Task("initialize", "initialize", "create_app")
                 ELSE IdleTask]
    /\ log = NoLog
    /\ loaded = NoFile

Init ==
    /\ \E cfg \in Configs :
          /\ streets_geojson = cfg[1]
          /\ snap_distance = cfg[2]
    /\ cache_file = NoFile
    /\ monthly_files \in FileLists
    /\ Constructed
    /\ event = Event("start", "main")

(***************************************************************************)
(* Calling update_progress: the synchronous part up to the first await     *)
(***************************************************************************)
\* lines 147-165: "return" (nothing to do), "raise" (the filter raised) or
\* "await" (suspended in asyncio.to_thread(from_features))
CallOutcome(routes) ==
    IF segments_gdf.none THEN "return"
    ELSE IF Len(routes) = 0 THEN "return"
    ELSE IF FilterRaises(routes) THEN "raise"
    ELSE IF Len(ValidFeatures(routes)) = 0 THEN "return"
    ELSE "await"

\* the task record when an entry point is over
Ended(entry, raised) ==
    IF entry = "create_app"
    THEN (IF raised THEN Task("failed", "", "create_app")
                    ELSE Task("serving", "", "create_app"))
    ELSE IF entry = "background"
    THEN Task("accepting", "", "background")
    ELSE IdleTask

Suspended(t, routes) ==
    [t EXCEPT !.pc = "from_features", !.fn = "update_progress",
              !.routes = routes, !.valid = ValidFeatures(routes),
              !.gdf = <<>>, !.i = 0, !.cache_data = NoFile]

\* ProgressUpdater.update_progress: one call on the whole feature list
CallAll(t, routes) ==
    LET out == CallOutcome(routes)
    IN  IF out = "await"
        THEN [t |-> Suspended(t, routes), returned |-> <<>>, raised |-> <<>>,
              ended |-> FALSE]
        ELSE IF out = "return"
        THEN [t |-> Ended(t.entry, FALSE), returned |-> <<routes>>,
              raised |-> <<>>, ended |-> TRUE]
        ELSE [t |-> Ended(t.entry, TRUE), returned |-> <<>>,
              raised |-> <<routes>>, ended |-> TRUE]

\* the batch loop of process_routes_and_update_progress from offset off on:
\* chunks whose call returns at once are passed over in the same step
RECURSIVE CallChunks(_, _, _)
CallChunks(t, off, returned) ==
    IF off > t.n
    THEN [t |-> Ended(t.entry, FALSE), returned |-> returned, raised |-> <<>>,
          ended |-> TRUE]
    ELSE LET feats == historical_geojson_features
             batch == SubSeq(feats, off, Min2(off + t.batch_size - 1, Len(feats)))
             out   == CallOutcome(batch)
         IN  IF out = "await"
             THEN [t |-> [Suspended(t, batch) EXCEPT !.off = off],
                   returned |-> returned, raised |-> <<>>, ended |-> FALSE]
             ELSE IF out = "return"
             THEN CallChunks(t, off + t.batch_size, Append(returned, batch))
             ELSE [t |-> Ended(t.entry, TRUE), returned |-> returned,
                   raised |-> <<batch>>, ended |-> TRUE]

\* update_progress returns normally to its caller, which carries on
Return(t) ==
    IF t.entry = "chunks"
    THEN CallChunks(t, t.off + t.batch_size, <<t.routes>>)
    ELSE [t |-> Ended(t.entry, FALSE), returned |-> <<t.routes>>,
          raised |-> <<>>, ended |-> TRUE]

RECURSIVE LogExtend(_, _)
LogExtend(l, returned) ==
    IF Len(returned) = 0 THEN l
    ELSE IF Len(Head(returned)) = 0 THEN LogExtend(l, Tail(returned))
    ELSE IF l.count >= MaxLog THEN LogFull
    ELSE LogExtend([count  |-> l.count + 1,
                    recent |-> Append(l.recent, Head(returned))],
                   Tail(returned))

\* another request is in flight while task p takes a step
Overlap(p) == \E q \in Procs \ {p, "main"} : task[q].pc # "idle"

\* the entry points that run under "async with waco_analyzer.lock":
\* DataLoader.load_data as called by create_app, by
\* load_historical_data_background and by /api/load_historical_data
LockedEntries == {"create_app", "background", "load_route"}

\* the bookkeeping shared by every step that calls or leaves update_progress;
\* an entry point that is over releases what it holds
Proceed(p, entry, res, kind, reset, before) ==
    /\ task' = [task EXCEPT ![p] = res.t]
    /\ log' = IF Overlap(p) THEN LogFull ELSE LogExtend(log, res.returned)
    /\ event' = [kind |-> kind, p |-> p, returned |-> res.returned,
                 raised |-> res.raised, reset |-> reset,
                 ended |-> IF res.ended THEN entry ELSE "", before |-> before,
                 response |-> NoResponse]
    /\ lock' = IF entry \in LockedEntries
               THEN (IF res.ended THEN "" ELSE p) ELSE lock
    /\ historical_data_loading' =
          IF entry = "background" THEN ~res.ended ELSE historical_data_loading
    /\ historical_data_loaded' =
          IF entry = "background" /\ res.ended /\ Len(res.raised) = 0
          THEN TRUE ELSE historical_data_loaded
    /\ progress_lock' = IF entry = "update_route"
                        THEN ~res.ended ELSE progress_lock
    /\ processing_lock' = IF entry = "reset_route"
                          THEN ~res.ended ELSE processing_lock
    /\ is_processing' = IF entry = "reset_route"
                        THEN ~res.ended ELSE is_processing

(***************************************************************************)
(* Start-up: create_app -> initialize -> load_historical_data              *)
(***************************************************************************)
\* initialize -> load_data: os.path.exists(cache_file) picks the branch
Initialize ==
    /\ task["main"].pc = "initialize"
    /\ task' = [task EXCEPT !["main"].pc =
                   IF cache_file.exists THEN "load_cache" ELSE "read_source"]
    /\ loaded' = cache_file
    /\ event' = Event("load_data", "main")
    /\ UNCHANGED <<disk, engine, app, web, log>>

\* the end of initialize (the index is built) and, in create_app, the start
\* of DataLoader.load_data, which takes the analyzer lock and reads the files
InitializeDone(segments) ==
    /\ sindex' = BuildIndex(segments)
    /\ task' = [task EXCEPT !["main"] = Task("load_files", "", "create_app")]
    /\ lock' = "main"
    /\ event' = Event("initialized", "main")
    /\ UNCHANGED <<historical_geojson_features, progress_lock, processing_lock,
                   is_processing, flags, web, log>>

\* a loader that gives up when the cache cannot be used
LoadCacheNoFallback ==
    /\ task["main"].pc = "load_cache"
    /\ task' = [task EXCEPT !["main"] = Task("failed", "", "create_app")]
    /\ event' = Event("cache_error", "main")
    /\ UNCHANGED <<disk, engine, app, web, log, loaded>>

\* _load_from_cache: read the file and parse it; any failure, and a frame
\* that is None or empty, falls back to _process_and_cache_data
LoadCache ==
    /\ task["main"].pc = "load_cache"
    /\ LET y == YamlLoad(cache_file)
       IN  IF y.kind = "mapping"
           THEN /\ streets_gdf' = y.obj.streets_gdf
                /\ segments_gdf' = y.obj.segments_gdf
                /\ traveled_segments' = y.obj.traveled_segments
                /\ traveled_column' = NoColumn
                /\ IF \/ y.obj.streets_gdf.none
                      \/ IsEmpty(y.obj.streets_gdf)
                      \/ y.obj.segments_gdf.none
                      \/ IsEmpty(y.obj.segments_gdf)
                   THEN /\ task' = [task EXCEPT !["main"].pc = "read_source"]
                        /\ event' = Event("cache_invalid", "main")
                        /\ UNCHANGED <<sindex, app, web, log>>
                   ELSE InitializeDone(y.obj.segments_gdf)
           ELSE /\ task' = [task EXCEPT !["main"].pc = "read_source"]
                /\ event' = Event("cache_error", "main")
                /\ UNCHANGED <<engine, app, web, log>>
    /\ UNCHANGED <<disk, loaded>>

\* _process_and_cache_data up to the await in _save_to_cache
ReadSource ==
    /\ task["main"].pc = "read_source"
    /\ LET streets  == ReadStreets(streets_geojson)
           segments == _create_segments(streets)
       IN  /\ streets_gdf' = streets
           /\ IF IsEmpty(streets)
              THEN /\ task' = [task EXCEPT !["main"] =
                                  Task("failed", "", "create_app")]
                   /\ UNCHANGED <<segments_gdf, traveled_column>>
              ELSE /\ segments_gdf' = segments
                   /\ traveled_column' = NoColumn
                   /\ task' = [task EXCEPT !["main"] =
                                  [@ EXCEPT !.pc = "save_open",
                                            !.cache_data = PickleDumps(
                                                Snapshot(streets, segments,
                                                         traveled_segments))]]
    /\ event' = Event("read_source", "main")
    /\ UNCHANGED <<disk, traveled_segments, sindex, app, web, log, loaded>>

\* a load_data whose update_all_progress takes the analyzer lock again
LoadFilesNested(p, ok) ==
    /\ task[p].pc = "load_files"
    /\ task' = [task EXCEPT ![p].pc = "await_lock"]
    /\ event' = Event("wait", p)
    /\ loaded' = NoFile
    /\ UNCHANGED <<disk, engine, app, web, log>>

\* load_data reads the monthly files and calls update_all_progress;
\* _process_file logs a file it cannot read and returns no features
LoadFilesRead(p, ok) ==
    /\ task[p].pc = "load_files"
    /\ LET features == IF ok THEN monthly_files ELSE <<>>
       IN  /\ historical_geojson_features' = features
           /\ Proceed(p, task[p].entry, CallAll(task[p], features),
                      "load_files", FALSE, {})
    /\ loaded' = NoFile
    /\ UNCHANGED <<disk, engine, web>>

\* the load of create_app, with monthly files that can be read
LoadFiles == LoadFilesRead("main", TRUE)

(***************************************************************************)
(* _save_to_cache, as called by initialize, update_progress, reset_progress *)
(***************************************************************************)
\* a save whose failure empties the traveled set
AfterSaveLosing(p, kind) ==
    LET t == task[p]
    IN  IF t.fn = "initialize"
        THEN /\ InitializeDone(segments_gdf)
             /\ UNCHANGED <<streets_gdf, segments_gdf, traveled_segments,
                            traveled_column>>
        ELSE /\ Proceed(p, t.entry,
                        IF t.fn = "update_progress" THEN Return(t)
                        ELSE CallAll(t, historical_geojson_features),
                        kind, t.fn = "reset_progress", {})
             /\ traveled_segments' =
                   IF kind = "save_failed" THEN {} ELSE traveled_segments
             /\ UNCHANGED <<streets_gdf, segments_gdf, sindex, traveled_column,
                            historical_geojson_features, web>>

\* what follows the save in the method that called it
AfterSave(p, kind) ==
    LET t == task[p]
    IN  IF t.fn = "initialize"
        THEN /\ InitializeDone(segments_gdf)
             /\ UNCHANGED <<streets_gdf, segments_gdf, traveled_segments,
                            traveled_column>>
        ELSE IF t.fn = "update_progress"
        THEN /\ Proceed(p, t.entry, Return(t), kind, FALSE, {})
             /\ UNCHANGED <<engine, historical_geojson_features, web>>
        ELSE /\ Proceed(p, t.entry, CallAll(t, historical_geojson_features),
                        kind, TRUE, {})
             /\ UNCHANGED <<engine, historical_geojson_features, web>>

\* aiofiles.open(cache_file, "wb"): the file is created or truncated; when
\* the open fails the exception is logged and the save is skipped
SaveOpen(p) ==
    /\ task[p].pc = "save_open"
    /\ \E ok \in BOOLEAN :
          IF ok
          THEN /\ cache_file' = EmptyFile
               /\ task' = [task EXCEPT ![p].pc = "save_write"]
               /\ event' = Event("save_open", p)
               /\ UNCHANGED <<engine, app, web, log>>
          ELSE /\ UNCHANGED cache_file
               /\ AfterSave(p, "save_failed")
    /\ UNCHANGED <<streets_geojson, monthly_files, snap_distance, loaded>>

\* f.write(cache_data) and the close of the file; when the write fails the
\* file stays cut short, the exception is logged and the caller carries on
SaveWrite(p) ==
    /\ task[p].pc = "save_write"
    /\ \E ok \in BOOLEAN :
          IF ok
          THEN /\ cache_file' = task[p].cache_data
               /\ AfterSave(p, "save_write")
          ELSE /\ UNCHANGED cache_file
               /\ AfterSave(p, "save_failed")
    /\ UNCHANGED <<streets_geojson, monthly_files, snap_distance, loaded>>

(***************************************************************************)
(* update_progress after the first await                                   *)
(***************************************************************************)
\* from_features is back: a bad coordinate raises, the except clause logs it
\* and the call returns; otherwise the first route is matched
FromFeaturesDone(p) ==
    /\ task[p].pc = "from_features"
    /\ LET t == task[p]
       IN  IF FromFeaturesRaises(t.valid)
           THEN /\ Proceed(p, t.entry, Return(t), "from_features_raised",
                           FALSE, {})
                /\ UNCHANGED <<engine, historical_geojson_features>>
           ELSE LET gdf == FromFeatures(t.valid)
                IN  /\ traveled_segments' = MarkTraveled(traveled_segments,
                           MatchRoute(gdf[1], segments_gdf, sindex, snap_distance))
                    /\ task' = [task EXCEPT ![p] =
                                   [@ EXCEPT !.pc = "sleep", !.gdf = gdf, !.i = 1]]
                    /\ event' = [Event("match", p) EXCEPT
                                   !.before = traveled_segments]
                    /\ UNCHANGED <<streets_gdf, segments_gdf, sindex,
                                   traveled_column, app, log>>
    /\ UNCHANGED <<disk, web, loaded>>

\* asyncio.sleep(0) is back: the next route is matched, or the loop is over
\* and _save_to_cache pickles the state
NextRoute(p) ==
    /\ task[p].pc = "sleep"
    /\ LET t == task[p]
       IN  IF t.i < Len(t.gdf)
           THEN /\ traveled_segments' = MarkTraveled(traveled_segments,
                       MatchRoute(t.gdf[t.i + 1], segments_gdf, sindex,
                                  snap_distance))
                /\ task' = [task EXCEPT ![p].i = t.i + 1]
                /\ event' = [Event("match", p) EXCEPT
                               !.before = traveled_segments]
           ELSE /\ UNCHANGED traveled_segments
                /\ task' = [task EXCEPT ![p] =
                               [@ EXCEPT !.pc = "save_open",
                                         !.cache_data = PickleDumps(
                                             Snapshot(streets_gdf, segments_gdf,
                                                      traveled_segments))]]
                /\ event' = Event("dumps", p)
    /\ UNCHANGED <<disk, streets_gdf, segments_gdf, sindex, traveled_column,
                   app, web, log, loaded>>

(***************************************************************************)
(* Requests and pipeline runs while the application serves                 *)
(***************************************************************************)
Serving == task["main"].pc = "serving"

\* POST /update_progress: under app.progress_lock, update_all_progress
UpdateProgressRoute ==
    /\ Serving
    /\ task["upd"].pc = "idle"
    /\ ~progress_lock
    /\ Proceed("upd", "update_route",
               CallAll(Task("idle", "", "update_route"),
                       historical_geojson_features),
               "update_route", FALSE, {})
    /\ UNCHANGED <<disk, engine, historical_geojson_features, web, loaded>>

\* DataProcessor.process_routes_and_update_progress: one call per chunk
ProcessRoutes ==
    /\ Serving
    /\ task["upd"].pc = "idle"
    /\ \E batch_size \in 1..MaxBatch :
          Proceed("upd", "chunks",
                  CallChunks([Task("idle", "", "chunks") EXCEPT
                                 !.batch_size = batch_size,
                                 !.n = Len(historical_geojson_features)],
                             1, <<>>),
                  "process_routes", FALSE, {})
    /\ UNCHANGED <<disk, engine, historical_geojson_features, web, loaded>>

\* the body of /reset_progress once app.processing_lock is acquired: the
\* is_processing check, then reset_progress clears the set and pickles the
\* state for the save
ResetProgressEnter ==
    /\ ~processing_lock
    /\ IF is_processing
       THEN /\ task' = [task EXCEPT !["rst"] = IdleTask]
            /\ event' = Event("answer_429", "rst")
            /\ UNCHANGED <<engine, app, log>>
       ELSE /\ processing_lock' = TRUE
            /\ is_processing' = TRUE
            /\ traveled_segments' = {}
            /\ task' = [task EXCEPT !["rst"] =
                           [Task("save_open", "reset_progress", "reset_route")
                              EXCEPT !.cache_data = PickleDumps(
                                  Snapshot(streets_gdf, segments_gdf, {}))]]
            /\ log' = IF Overlap("rst") THEN LogFull ELSE NoLog
            /\ event' = Event("clear", "rst")
            /\ UNCHANGED <<streets_gdf, segments_gdf, sindex, traveled_column,
                           lock, historical_geojson_features, progress_lock,
                           flags>>
    /\ UNCHANGED <<disk, web, loaded>>

\* POST /reset_progress arriving while app.processing_lock is free
ResetProgressRoute ==
    /\ Serving
    /\ task["rst"].pc = "idle"
    /\ ResetProgressEnter

\* fetch_all_historical_data / _process_fetched_results: under the analyzer
\* lock, a fetched trip (create_geojson_features_from_trips keeps LineStrings
\* with two or more coordinates) later than the ones already held
\* (_get_start_date fetches from the latest timestamp on) is written to the
\* monthly file and appended to historical_geojson_features
Ingest ==
    /\ Serving
    /\ lock = ""
    /\ Len(historical_geojson_features) < MaxBatch
    /\ \E f \in Features :
          /\ IsValidFeature(f)
          /\ \A k \in 1..Len(historical_geojson_features) :
                historical_geojson_features[k].timestamp < f.timestamp
          /\ historical_geojson_features' = Append(historical_geojson_features, f)
          /\ monthly_files' = Append(monthly_files, f)
    /\ event' = Event("ingest", "main")
    /\ UNCHANGED <<streets_geojson, cache_file, snap_distance, engine, lock,
                   progress_lock, processing_lock, is_processing, flags, web,
                   task, log, loaded>>

\* the process dies and is started again: memory is lost, the disk is kept
Crash ==
    /\ streets_gdf' = NoneGdf
    /\ segments_gdf' = NoneGdf
    /\ traveled_segments' = {}
    /\ sindex' = <<>>
    /\ traveled_column' = NoColumn
    /\ lock' = ""
    /\ historical_geojson_features' = <<>>
    /\ progress_lock' = FALSE
    /\ processing_lock' = FALSE
    /\ is_processing' = FALSE
    /\ historical_data_loading' = FALSE
    /\ historical_data_loaded' = FALSE
    /\ cache' = EmptyCache
    /\ task' = [p \in Procs |->
                  IF p = "main" THEN Task("initialize", "initialize", "create_app")
                  ELSE IdleTask]
    /\ log' = NoLog
    /\ loaded' = NoFile
    /\ event' = Event("crash", "main")
    /\ UNCHANGED disk

Next ==
    \/ Initialize
    \/ LoadCache
    \/ ReadSource
    \/ LoadFiles
    \/ \E p \in Procs : SaveOpen(p)
    \/ \E p \in Procs : SaveWrite(p)
    \/ \E p \in Procs : FromFeaturesDone(p)
    \/ \E p \in Procs : NextRoute(p)
    \/ UpdateProgressRoute
    \/ ProcessRoutes
    \/ ResetProgressRoute
    \/ Ingest
    \/ Crash

Spec == Init /\ [][Next]_vars

(***************************************************************************)
(* Locks and flags: the before_serving hook and the requests that wait for *)
(* WacoStreetsAnalyzer.lock or app.processing_lock                         *)
(***************************************************************************)
\* the fetch a run of fetch_all_historical_data brings back
FetchedTrips == {TripB}

\* the monthly files found at start-up
StartupFiles == {<<>>, <<TripA>>, <<TripNoGeometry>>}

\* the before_serving hook is over: requests are accepted
Accepting == task["main"].pc = "accepting"

\* a request or a task is suspended in "async with <lock>"
Wait(p, pc, entry) ==
    /\ task' = [task EXCEPT ![p] = Task(pc, "", entry)]
    /\ event' = Event("wait", p)
    /\ UNCHANGED <<disk, engine, app, web, log, loaded>>

\* DataLoader.load_data once the analyzer lock is acquired: features already
\* held are returned at once; without monthly files update_all_progress is
\* called on an empty list and returns; otherwise the task is suspended in
\* _process_file, holding the lock
LoadDataEnter(p, entry) ==
    /\ lock = ""
    /\ Proceed(p, entry,
               IF Len(historical_geojson_features) > 0 \/ Len(monthly_files) = 0
               THEN [t |-> Ended(entry, FALSE), returned |-> <<>>,
                     raised |-> <<>>, ended |-> TRUE]
               ELSE [t |-> Task("load_files", "load_data", entry),
                     returned |-> <<>>, raised |-> <<>>, ended |-> FALSE],
               "load_data", FALSE, {})
    /\ UNCHANGED <<disk, engine, historical_geojson_features, web, loaded>>

\* a background load that reports loaded whatever load_historical_data did
BackgroundStartAlways ==
    /\ task["main"].pc = "serving"
    /\ task' = [task EXCEPT !["main"] = Ended("background", FALSE)]
    /\ historical_data_loaded' = TRUE
    /\ event' = Event("load_data", "main")
    /\ UNCHANGED <<disk, engine, lock, historical_geojson_features,
                   progress_lock, processing_lock, is_processing,
                   historical_data_loading, web, log, loaded>>

\* load_historical_data_background, called by the before_serving hook:
\* historical_data_loading is set, load_historical_data runs load_data, and
\* the flags are settled when it is over
BackgroundStart ==
    /\ task["main"].pc = "serving"
    /\ LoadDataEnter("main", "background")

\* GET /api/load_historical_data: load_data, which waits for the analyzer lock
LoadDataRoute ==
    /\ Accepting
    /\ task["load"].pc = "idle"
    /\ IF lock # ""
       THEN Wait("load", "await_lock", "load_route")
       ELSE LoadDataEnter("load", "load_route")

LoadDataResume ==
    /\ task["load"].pc = "await_lock"
    /\ LoadDataEnter("load", "load_route")

\* fetch_all_historical_data once the analyzer lock is acquired: suspended in
\* asyncio.gather over the daily fetches, holding the lock
FetchEnter ==
    /\ lock = ""
    /\ lock' = "fetch"
    /\ task' = [task EXCEPT !["fetch"] =
                   Task("gather", "fetch_all_historical_data", "fetch")]
    /\ event' = Event("fetch", "fetch")
    /\ UNCHANGED <<disk, engine, historical_geojson_features, progress_lock,
                   processing_lock, is_processing, flags, web, log, loaded>>

FetchRequest ==
    /\ Accepting
    /\ task["fetch"].pc = "idle"
    /\ Len(historical_geojson_features) < MaxBatch
    /\ IF lock # ""
       THEN Wait("fetch", "await_lock", "fetch")
       ELSE FetchEnter

FetchResume ==
    /\ task["fetch"].pc = "await_lock"
    /\ FetchEnter

\* _process_fetched_results: the trips not yet held are written to the
\* monthly file and appended; leaving the "async with" releases the lock
FetchDone ==
    /\ task["fetch"].pc = "gather"
    /\ \E trips \in {<<>>} \cup {<<f>> : f \in FetchedTrips} :
          LET unique_new_features ==
                  SelectSeq(trips, LAMBDA f :
                      \A k \in 1..Len(historical_geojson_features) :
                          historical_geojson_features[k].timestamp # f.timestamp)
          IN  /\ historical_geojson_features' =
                     historical_geojson_features \o unique_new_features
              /\ monthly_files' = monthly_files \o unique_new_features
    /\ lock' = ""
    /\ task' = [task EXCEPT !["fetch"] = IdleTask]
    /\ event' = Event("ingest", "fetch")
    /\ UNCHANGED <<streets_geojson, cache_file, snap_distance, engine,
                   progress_lock, processing_lock, is_processing, flags, web,
                   log, loaded>>

\* POST /reset_progress: the request waits while app.processing_lock is held
ResetProgressRequest ==
    /\ Accepting
    /\ task["rst"].pc = "idle"
    /\ IF processing_lock
       THEN Wait("rst", "await_processing", "reset_route")
       ELSE ResetProgressEnter

ResetProgressResume ==
    /\ task["rst"].pc = "await_processing"
    /\ ResetProgressEnter

\* the body of /update_historical_data once app.processing_lock is acquired:
\* the is_processing check, then the handler is suspended in
\* request.get_json()
HistEnter ==
    /\ ~processing_lock
    /\ IF is_processing
       THEN /\ task' = [task EXCEPT !["hist"] = IdleTask]
            /\ event' = Event("answer_429", "hist")
            /\ UNCHANGED <<processing_lock, is_processing>>
       ELSE /\ processing_lock' = TRUE
            /\ is_processing' = TRUE
            /\ task' = [task EXCEPT !["hist"] =
                           Task("get_json", "update_historical_data",
                                "hist_route")]
            /\ event' = Event("hist_enter", "hist")
    /\ UNCHANGED <<disk, engine, lock, historical_geojson_features,
                   progress_lock, flags, web, log, loaded>>

HistRequest ==
    /\ Accepting
    /\ task["hist"].pc = "idle"
    /\ IF processing_lock
       THEN Wait("hist", "await_processing", "hist_route")
       ELSE HistEnter

HistResume ==
    /\ task["hist"].pc = "await_processing"
    /\ HistEnter

\* get_json is back: update_historical_data(fetch_all=..., start_date=...,
\* end_date=...) does not fit the signature (self, new_features), the call
\* raises TypeError before the analyzer lock is reached, the handler answers
\* 500 and the finally clause clears is_processing
HistFinish ==
    /\ task["hist"].pc = "get_json"
    /\ processing_lock' = FALSE
    /\ is_processing' = FALSE
    /\ task' = [task EXCEPT !["hist"] = IdleTask]
    /\ event' = [Event("hist_error", "hist") EXCEPT !.ended = "hist_route"]
    /\ UNCHANGED <<disk, engine, lock, historical_geojson_features,
                   progress_lock, flags, web, log, loaded>>

InitLocks ==
    /\ streets_geojson = NetworkLong
    /\ snap_distance = 0
    /\ cache_file = NoFile
    /\ monthly_files \in StartupFiles
    /\ Constructed
    /\ event = Event("start", "main")

NextLocks ==
    \/ Initialize
    \/ ReadSource
    \/ \E p \in {"main", "load"} : \E ok \in BOOLEAN : LoadFilesRead(p, ok)
    \/ \E p \in Procs : SaveOpen(p)
    \/ \E p \in Procs : SaveWrite(p)
    \/ \E p \in Procs : FromFeaturesDone(p)
    \/ \E p \in Procs : NextRoute(p)
    \/ BackgroundStart
    \/ LoadDataRoute
    \/ LoadDataResume
    \/ FetchRequest
    \/ FetchResume
    \/ FetchDone
    \/ ResetProgressRequest
    \/ ResetProgressResume
    \/ HistRequest
    \/ HistResume
    \/ HistFinish

SpecLocks == InitLocks /\ [][NextLocks]_vars

\* the event loop runs every callback that is ready, awaited file and network
\* operations complete, and asyncio.Lock wakes its waiters in turn: a step of
\* a task that is not waiting for a new request is eventually taken
SpecLocksFair ==
    /\ SpecLocks
    /\ \A p \in Procs :
          /\ WF_vars(\E ok \in BOOLEAN : LoadFilesRead(p, ok))
          /\ WF_vars(SaveOpen(p))
          /\ WF_vars(SaveWrite(p))
          /\ WF_vars(FromFeaturesDone(p))
          /\ WF_vars(NextRoute(p))
    /\ WF_vars(BackgroundStart)
    /\ SF_vars(LoadDataResume)
    /\ SF_vars(FetchResume)
    /\ WF_vars(FetchDone)
    /\ SF_vars(ResetProgressResume)
    /\ SF_vars(HistResume)
    /\ WF_vars(HistFinish)

(***************************************************************************)
(* Read routes: /progress, /progress_geojson, /untraveled_streets and      *)
(* /waco_streets with its response cache                                   *)
(***************************************************************************)
\* the (wacoBoundary, filter) pairs /waco_streets is asked for
ExportRequests == {<<NoBoundary, "all">>, <<BoundaryAll, "traveled">>}

\* a read route answers: nothing but the event changes
Answer(kind) ==
    /\ event' = Event(kind, "web")
    /\ UNCHANGED <<disk, engine, app, web, task, log, loaded>>

\* GET /progress: under app.progress_lock, calculate_progress
ProgressRoute ==
    /\ Serving
    /\ ~progress_lock
    /\ Progress.total_segments >= 0
    /\ Answer("calculate_progress")

\* GET /progress_geojson: get_progress_geojson assigns the "traveled" column
\* of self.segments_gdf, then filters and builds the features
ProgressGeojsonRoute ==
    /\ Serving
    /\ \E b \in Boundaries :
          Len(get_progress_geojson(segments_gdf, traveled_segments, b)) >= 0
    /\ traveled_column' =
          [exists |-> TRUE,
           ids |-> {segments_gdf.rows[k].segment_id :
                      k \in {r \in 1..Len(segments_gdf.rows) :
                               segments_gdf.rows[r].segment_id
                                  \in traveled_segments}}]
    /\ event' = Event("get_progress_geojson", "web")
    /\ UNCHANGED <<disk, streets_gdf, segments_gdf, traveled_segments, sindex,
                   app, web, task, log, loaded>>

\* GET /untraveled_streets: get_untraveled_streets
UntraveledStreetsRoute ==
    /\ Serving
    /\ \E b \in Boundaries :
          Len(get_untraveled_streets(streets_gdf, segments_gdf,
                                     traveled_segments, b)) >= 0
    /\ Answer("get_untraveled_streets")

\* GET /waco_streets: a cached document is returned as it is; otherwise
\* get_waco_streets -> get_streets -> get_street_network builds it and it is
\* cached under the (boundary, filter) key
WacoStreetsRoute ==
    /\ Serving
    /\ \E key \in ExportRequests :
          IF key \in DOMAIN cache
          THEN /\ event' = [Event("waco_streets", "web") EXCEPT
                               !.response = [key |-> key, body |-> cache[key]]]
               /\ UNCHANGED cache
          ELSE LET doc == get_streets(
                              get_street_network(streets_gdf, segments_gdf,
                                                 traveled_segments, key[1]),
                              key[2])
               IN  IF doc.error
                   THEN /\ event' = Event("waco_streets_error", "web")
                        /\ UNCHANGED cache
                   ELSE /\ cache' = [k \in DOMAIN cache \cup {key} |->
                                       IF k = key THEN doc.features
                                       ELSE cache[k]]
                        /\ event' = [Event("waco_streets", "web") EXCEPT
                                        !.response = [key  |-> key,
                                                      body |-> doc.features]]
    /\ UNCHANGED <<disk, engine, app, task, log, loaded>>

\* TTLCache(ttl=3600): an entry that is an hour old is dropped
CacheExpire ==
    /\ \E key \in DOMAIN cache :
          cache' = [k \in DOMAIN cache \ {key} |-> cache[k]]
    /\ event' = Event("expire", "web")
    /\ UNCHANGED <<disk, engine, app, task, log, loaded>>

InitExport ==
    /\ streets_geojson = NetworkMulti
    /\ snap_distance = 1
    /\ cache_file = NoFile
    /\ monthly_files = <<TripA>>
    /\ Constructed
    /\ event = Event("start", "main")

NextExport ==
    \/ Initialize
    \/ ReadSource
    \/ LoadFiles
    \/ \E p \in Procs : SaveOpen(p)
    \/ \E p \in Procs : SaveWrite(p)
    \/ \E p \in Procs : FromFeaturesDone(p)
    \/ \E p \in Procs : NextRoute(p)
    \/ UpdateProgressRoute
    \/ ResetProgressRoute
    \/ ProgressRoute
    \/ ProgressGeojsonRoute
    \/ UntraveledStreetsRoute
    \/ WacoStreetsRoute
    \/ CacheExpire

SpecExport == InitExport /\ [][NextExport]_vars

(***************************************************************************)
(* Start-up on a cache file that yaml.load can parse                       *)
(***************************************************************************)
\* a YAML document describing a snapshot
YamlDump(obj) == [exists |-> TRUE, whole |-> TRUE, format |-> "yaml", obj |-> obj]

\* a cache whose segment frame is empty and whose traveled set names a
\* segment of a street the source file does not have
StaleCache ==
    YamlDump(Snapshot(ReadStreets(NetworkLine), Gdf(<<>>), {SegmentId(7, 0)}))

InitCache ==
    /\ streets_geojson = NetworkLine
    /\ snap_distance = 0
    /\ cache_file = StaleCache
    /\ monthly_files \in FileLists
    /\ Constructed
    /\ event = Event("start", "main")

SpecCache == InitCache /\ [][Next]_vars

(***************************************************************************)
(* Claims                                                                  *)
(***************************************************************************)
\* a LineString trip with at least two well-formed points
WellFormed(f) == IsValidFeature(f) /\ ~FromFeaturesRaises(<<f>>)

\* the segment ids the engine matches to a well-formed trip
Matches(f) ==
    MatchRoute(f.geometry.coordinates, segments_gdf, sindex, snap_distance)

\* no update_progress call is part-way through its routes
NoPartial == \A p \in Procs : task[p].i = 0

\* coverage_percentage equals the integer pct
PercentageIs(pct) ==
    Progress.coverage_percentage.num = pct * Progress.coverage_percentage.den

\* consecutive chunks of a list, batch_size elements each
RECURSIVE Chunks(_, _)
Chunks(feats, batch_size) ==
    IF Len(feats) = 0 THEN <<>>
    ELSE IF Len(feats) <= batch_size THEN <<feats>>
    ELSE <<SubSeq(feats, 1, batch_size)>>
         \o Chunks(SubSeq(feats, batch_size + 1, Len(feats)), batch_size)

\* C1: at any time at most one task is between the start and the end of
\* update_progress or reset_progress (with the save they trigger)
C1_MutualExclusion ==
    Cardinality({p \in Procs :
                   task[p].fn \in {"update_progress", "reset_progress"}}) <= 1

\* C2: when initialize finishes and the cache file it found was a complete
\* snapshot, streets, segments and the traveled set equal the saved ones
C2_RoundTrip ==
    (event.kind = "initialized" /\ loaded.whole)
        => /\ streets_gdf = loaded.obj.streets_gdf
           /\ segments_gdf = loaded.obj.segments_gdf
           /\ traveled_segments = loaded.obj.traveled_segments

\* C3: whenever the process crashes, the cache file on disk, if there is
\* one, is a complete snapshot
C3_CrashAtomic ==
    event.kind = "crash" => (cache_file.exists => cache_file.whole)

\* C4: when update_progress returns from a batch in which one trip made the
\* conversion raise, every well-formed trip of that batch is matched: its
\* segments are in traveled_segments (first call since the set was empty)
C4_BatchContinues ==
    \A k \in 1..Len(event.returned) :
        LET r == event.returned[k]
        IN  (log.count = 1 /\ log.recent = <<r>>
             /\ FromFeaturesRaises(ValidFeatures(r)))
                => \A j \in 1..Len(r) :
                      WellFormed(r[j]) => Matches(r[j]) \subseteq traveled_segments

\* C5: no update_progress call ends by raising to its caller
C5_NeverRaises == Len(event.raised) = 0

\* the step matches a route of a single-trip batch [g], g well-formed, and
\* the last call that returned before it was update_progress([g])
C6_SecondCall ==
    /\ event.kind = "match"
    /\ Len(task[event.p].routes) = 1
    /\ WellFormed(task[event.p].routes[1])
    /\ log.count \in 1..MaxLog
    /\ log.recent[Len(log.recent)] = task[event.p].routes

\* C6: a second update_progress([g]) right after a first leaves
\* traveled_segments as the first call left it
C6_Idempotent == C6_SecondCall => traveled_segments = event.before

C6_Witness == C6_SecondCall /\ Matches(task[event.p].routes[1]) # {}

C8_ResetZero ==
    event.reset => (Progress.traveled_segments = 0 /\ PercentageIs(0))

\* the scenario of C9: the three-vertex street, tolerance 0, and since the
\* traveled set was empty exactly the listed submissions, all completed
C9_After(submissions) ==
    /\ streets_geojson = NetworkLine
    /\ snap_distance = 0
    /\ NoPartial
    /\ log = [count |-> Len(submissions), recent |-> submissions]

\* C9 as stated: trip [(0,0),(1,0)] yields 1 of 2 segments, 50 percent; trip
\* [(0,0),(2,0)] afterwards yields 2 segments, 100 percent
C9_Scenario ==
    /\ C9_After(<< <<TripA>> >>)
          => /\ Progress.traveled_segments = 1
             /\ Progress.total_segments = 2
             /\ PercentageIs(50)
    /\ C9_After(<< <<TripA>>, <<TripB>> >>)
          => /\ Progress.traveled_segments = 2
             /\ PercentageIs(100)

\* C9 amended: trip [(0,0),(1,0)] touches S1 at (1,0), so it already yields
\* 2 of 2 segments, 100 percent; trip [(0,0),(2,0)] afterwards changes nothing
C9_ScenarioAmended ==
    /\ C9_After(<< <<TripA>> >>)
          => /\ Progress.traveled_segments = 2
             /\ Progress.total_segments = 2
             /\ PercentageIs(100)
    /\ C9_After(<< <<TripA>>, <<TripB>> >>)
          => /\ Progress.traveled_segments = 2
             /\ Progress.total_segments = 2
             /\ PercentageIs(100)

C9_Witness == C9_After(<< <<TripA>>, <<TripB>> >>)

\* C10: when process_routes_and_update_progress has submitted the feature
\* list chunk by chunk to an engine whose traveled set was empty, the set
\* equals what one update_progress call on the whole list leaves
C10_ChunksEqualWhole ==
    (/\ event.ended = "chunks"
     /\ Len(event.raised) = 0
     /\ log.count = Len(log.recent)
     /\ \E batch_size \in 1..MaxBatch :
           log.recent = Chunks(historical_geojson_features, batch_size))
        => traveled_segments =
              UpdateResult({}, historical_geojson_features, segments_gdf,
                           sindex, snap_distance)

\* the traveled set update_progress calls leave when run one after another,
\* each alone, from the set traveled on
RECURSIVE Replay(_, _)
Replay(traveled, calls) ==
    IF Len(calls) = 0 THEN traveled
    ELSE Replay(UpdateResult(traveled, Head(calls), segments_gdf, sindex,
                             snap_distance),
                Tail(calls))

\* every reordering of the list s
Reorderings(s) ==
    {[k \in 1..Len(s) |-> s[f[k]]] :
        f \in {g \in [1..Len(s) -> 1..Len(s)] :
                 \A j \in 1..Len(s) : \A k \in 1..Len(s) :
                     g[j] = g[k] => j = k}}

\* the log tells every call since the traveled set was empty, and no call
\* is part-way through its routes
LogExact == log.count = Len(log.recent) /\ NoPartial

\* C11: whatever the order of the features inside a batch, update_progress
\* leaves the same traveled_segments: the set the engine holds equals the
\* one the calls leave with any one batch permuted
C11_OrderIndependent ==
    LogExact =>
        \A k \in 1..Len(log.recent) :
            \A perm \in Reorderings(log.recent[k]) :
                traveled_segments =
                    Replay({}, [log.recent EXCEPT ![k] = perm])

C11_Witness ==
    /\ LogExact
    /\ log.count = 1
    /\ Len(log.recent[1]) = 2
    /\ WellFormed(log.recent[1][1])
    /\ WellFormed(log.recent[1][2])
    /\ Matches(log.recent[1][1]) # Matches(log.recent[1][2])
    /\ traveled_segments = Matches(log.recent[1][1]) \cup Matches(log.recent[1][2])

\* C12: every step other than the clear of reset_progress and a restart of
\* the process leaves traveled_segments a superset of what it was
C12_OnlyGrows ==
    [][event'.kind \notin {"clear", "crash"}
          => traveled_segments \subseteq traveled_segments']_vars

\* an update that failed as a whole on an engine that holds traveled segments
C12_Witness ==
    /\ event.kind = "from_features_raised"
    /\ traveled_segments # {}

\* the boundary view of the engine as it is now
BoundaryView(b) == get_progress_geojson(segments_gdf, traveled_segments, b)

\* the one-street network is loaded and the index is built
C13_Loaded ==
    /\ streets_geojson = NetworkLine
    /\ ~segments_gdf.none
    /\ Len(sindex) > 0

C15_SaveFailureKeeps ==
    [][(event'.kind = "save_failed" /\ event'.p # "main")
          => LET t == task[event'.p]
             IN  /\ traveled_segments' = traveled_segments
                 /\ t.fn = "reset_progress" => event'.reset
                 /\ t.fn = "update_progress"
                       => /\ Len(event'.returned) >= 1
                          /\ event'.returned[1] = t.routes
                          /\ log'.count = Len(log'.recent)
                                => \A j \in 1..Len(t.routes) :
                                      IsValidFeature(t.routes[j])
                                         => Matches(t.routes[j])
                                               \subseteq traveled_segments']_vars

\* an update whose save failed has returned and its matches are held
C15_Witness ==
    /\ event.kind = "save_failed"
    /\ event.p = "upd"
    /\ Len(event.returned) >= 1
    /\ traveled_segments # {}
    /\ ~cache_file.whole

\* the route the last step matched
MatchedRoute == task[event.p].gdf[task[event.p].i]

\* the distance from the line to every segment of the network is more than
\* snap_distance
Far(line) ==
    \A k \in 1..Len(segments_gdf.rows) :
        ~DistanceWithin(line, segments_gdf.rows[k].geometry, snap_distance)

\* C16: the step of update_progress that matches a trip farther than
\* snap_distance from every segment leaves traveled_segments as it was
C16_FarTripNoChange ==
    (event.kind = "match" /\ Far(MatchedRoute))
        => traveled_segments = event.before

\* a far trip whose bounding box meets segments of the network was matched
C16_Witness ==
    /\ event.kind = "match"
    /\ Far(MatchedRoute)
    /\ IndexIntersection(sindex, Bounds(MatchedRoute)) # {}

\* C17: the step of update_progress that matches a trip lying exactly on a
\* segment leaves that segment traveled, and no segment whose bounding box
\* does not meet the trip's becomes traveled by the step
C17_OnSegment ==
    (/\ event.kind = "match"
     /\ \E k \in 1..Len(segments_gdf.rows) :
           MatchedRoute = segments_gdf.rows[k].geometry)
        => \A k \in 1..Len(segments_gdf.rows) :
              LET row == segments_gdf.rows[k]
              IN  /\ MatchedRoute = row.geometry
                        => row.segment_id \in traveled_segments
                  /\ (/\ ~BoxesIntersect(Bounds(row.geometry),
                                          Bounds(MatchedRoute))
                      /\ row.segment_id \notin event.before)
                        => row.segment_id \notin traveled_segments

\* C17 on networks whose streets are single LineStrings
C17_OnSegmentSinglePart ==
    (\A k \in 1..Len(streets_geojson) : streets_geojson[k].type = "LineString")
        => C17_OnSegment

\* C18: after the step of update_progress that matches a route, every
\* segment within snap_distance of the route is traveled
C18_NoFalseNegatives ==
    event.kind = "match"
        => \A k \in 1..Len(segments_gdf.rows) :
              DistanceWithin(MatchedRoute, segments_gdf.rows[k].geometry,
                             snap_distance)
                 => segments_gdf.rows[k].segment_id \in traveled_segments

\* C18 for the exact tolerance snap_distance = 0
C18_NoFalseNegativesExact == snap_distance = 0 => C18_NoFalseNegatives

\* the batch holds a feature that is not a LineString with two or more
\* coordinates
HasMalformed(r) == \E j \in 1..Len(r) : ~IsValidFeature(r[j])

\* C19: a batch with a malformed feature never makes update_progress raise,
\* and when such a call (the first since the set was empty, run alone, with
\* no failing conversion) returns, traveled_segments holds exactly the
\* matches of the valid features of the batch
C19_MalformedSkipped ==
    /\ \A k \in 1..Len(event.raised) : ~HasMalformed(event.raised[k])
    /\ \A k \in 1..Len(event.returned) :
          LET r == event.returned[k]
          IN  (/\ log.count = 1
               /\ log.recent = <<r>>
               /\ NoPartial
               /\ HasMalformed(r)
               /\ ~segments_gdf.none
               /\ ~FromFeaturesRaises(ValidFeatures(r)))
                 => traveled_segments =
                       UNION {Matches(r[j]) :
                                j \in {i \in 1..Len(r) : IsValidFeature(r[i])}}

\* C19 without the null geometries: only a batch that holds one makes
\* update_progress raise, and the other malformed features are skipped
C19_ShortSkipped ==
    (\A k \in 1..Len(event.raised) :
        \E j \in 1..Len(event.raised[k]) : event.raised[k][j].geometry.none)
    /\ \A k \in 1..Len(event.returned) :
          LET r == event.returned[k]
          IN  (/\ log.count = 1
               /\ log.recent = <<r>>
               /\ NoPartial
               /\ HasMalformed(r)
               /\ ~segments_gdf.none
               /\ ~FromFeaturesRaises(ValidFeatures(r)))
                 => traveled_segments =
                       UNION {Matches(r[j]) :
                                j \in {i \in 1..Len(r) : IsValidFeature(r[i])}}

\* street polylines of 2 to MaxVertices vertices on the unit square
Polylines ==
    UNION {[1..n -> {<<0, 0>>, <<1, 0>>, <<0, 1>>, <<1, 1>>}] :
              n \in 2..MaxVertices}

\* the vertex sequence a list of segments spells: the start of the first
\* segment, then the end of each
Rejoin(segs) ==
    <<segs[1].geometry[1]>> \o [k \in 1..Len(segs) |-> segs[k].geometry[2]]

\* N - 1 segments, the i-th from vertex i to vertex i + 1, each starting
\* where the one before ends, together spelling the polyline
SegmentsOf(coords, segs) ==
    /\ Len(segs) = Len(coords) - 1
    /\ \A k \in 1..Len(segs) :
          segs[k].geometry = <<coords[k], coords[k + 1]>>
    /\ \A k \in 1..(Len(segs) - 1) :
          segs[k].geometry[2] = segs[k + 1].geometry[1]
    /\ Rejoin(segs) = coords

\* the rows of segments_gdf that belong to a street
RowsOf(street_id) ==
    SelectSeq(segments_gdf.rows, LAMBDA row : row.street_id = street_id)

\* C20: when _process_and_cache_data has built the segments, every
\* LineString street of N vertices has exactly its N - 1 consecutive
\* segments in segments_gdf, and so has every polyline _process_linestring
\* can be given
C20_Segmenting ==
    event.kind = "read_source"
        => /\ \A coords \in Polylines :
                 SegmentsOf(coords, _process_linestring(coords, 0))
           /\ ~segments_gdf.none
                 => \A k \in 1..Len(streets_gdf.rows) :
                       streets_gdf.rows[k].type = "LineString"
                          => SegmentsOf(streets_gdf.rows[k].parts[1],
                                        RowsOf(streets_gdf.rows[k].street_id))

\* the segments of the three-vertex street have been built
C20_Witness ==
    /\ event.kind = "read_source"
    /\ streets_geojson = NetworkLine
    /\ Len(segments_gdf.rows) = 2
    /\ Rejoin(segments_gdf.rows) = << <<0, 0>>, <<1, 0>>, <<2, 0>> >>

\* C21: no two rows of segments_gdf share a segment_id
C21_UniqueSegmentIds ==
    \A j \in 1..Len(segments_gdf.rows) : \A k \in 1..Len(segments_gdf.rows) :
        segments_gdf.rows[j].segment_id = segments_gdf.rows[k].segment_id
           => j = k

\* C21 on networks whose streets are single LineStrings
C21_UniqueSegmentIdsSinglePart ==
    (\A k \in 1..Len(streets_geojson) : streets_geojson[k].type = "LineString")
        => C21_UniqueSegmentIds

\* the streets of streets_gdf that own a segment whose id is traveled
TraveledStreets ==
    {st \in {streets_gdf.rows[k].street_id : k \in 1..Len(streets_gdf.rows)} :
        \E r \in 1..Len(segments_gdf.rows) :
            /\ segments_gdf.rows[r].street_id = st
            /\ segments_gdf.rows[r].segment_id \in traveled_segments}

\* C22: calculate_progress reports as traveled_streets the number of streets
\* that own at least one traveled segment, and never more than total_streets
C22_AnySegmentRule ==
    ~segments_gdf.none =>
        /\ Progress.traveled_streets = Cardinality(TraveledStreets)
        /\ Progress.traveled_streets <= Progress.total_streets

\* a street of two segments counted as traveled with one segment traveled
C22_Witness ==
    /\ streets_geojson = NetworkLong
    /\ ~segments_gdf.none
    /\ Progress.traveled_segments = 1
    /\ Progress.total_segments = 2
    /\ Progress.traveled_streets = 1

\* C23: coverage_percentage is traveled / total * 100 over the segment store,
\* and every field is 0 while the store has not been built; no reachable
\* state divides by a total of 0
C23_CoveragePercentage ==
    LET pct == Progress.coverage_percentage
    IN  /\ pct.den > 0
        /\ segments_gdf.none =>
              /\ PercentageIs(0)
              /\ Progress.total_segments = 0
              /\ Progress.traveled_segments = 0
              /\ Progress.total_streets = 0
              /\ Progress.traveled_streets = 0
        /\ ~segments_gdf.none =>
              /\ Progress.total_segments = Len(segments_gdf.rows)
              /\ Progress.traveled_segments = Cardinality(traveled_segments)
              /\ IF Len(segments_gdf.rows) = 0
                 THEN PercentageIs(0)
                 ELSE pct.num * Len(segments_gdf.rows) =
                          Cardinality(traveled_segments) * 100 * pct.den

\* one of two segments traveled: 50 percent
C23_Witness ==
    /\ ~segments_gdf.none
    /\ Len(segments_gdf.rows) = 2
    /\ Cardinality(traveled_segments) = 1
    /\ PercentageIs(50)

\* a task is suspended in "async with waco_analyzer.lock"
AwaitsLock(p) == task[p].pc = "await_lock"

\* C27: no task waits for the analyzer lock while it holds the lock, and a
\* lock that is held is eventually released
C27_NoSelfDeadlock ==
    /\ [](\A p \in Procs : AwaitsLock(p) => lock # p)
    /\ \A p \in Procs : (lock = p) ~> (lock # p)

\* /api/load_historical_data is inside update_progress under the lock while
\* fetch_all_historical_data waits for the lock
C27_Witness ==
    /\ lock = "load"
    /\ task["load"].fn = "update_progress"
    /\ AwaitsLock("fetch")

\* a request to /reset_progress or /update_historical_data is suspended in
\* "async with app.processing_lock"
AwaitsProcessing(p) == task[p].pc = "await_processing"

\* C28: a request to either endpoint that arrives while is_processing is
\* True is answered 429 and performs no reset or update, and is_processing
\* is False when a request has finished
C28_SecondRequestRejected ==
    [][\A p \in {"rst", "hist"} :
          /\ (~AwaitsProcessing(p) /\ AwaitsProcessing(p)') => is_processing
          /\ (AwaitsProcessing(p) /\ ~AwaitsProcessing(p)')
                => event'.kind = "answer_429"
          /\ event'.ended \in {"reset_route", "hist_route"}
                => ~is_processing']_vars

\* the part of C28 about the flag: a request waits only while is_processing
\* is True, and is_processing is False when a request has finished
C28_FlagCleared ==
    [][\A p \in {"rst", "hist"} :
          /\ (~AwaitsProcessing(p) /\ AwaitsProcessing(p)') => is_processing
          /\ event'.ended \in {"reset_route", "hist_route"}
                => ~is_processing']_vars

\* C30: load_historical_data_background ends with historical_data_loading
\* False, historical_data_loaded becomes True only at the end of a call whose
\* load_historical_data did not raise, and a call that has started ends
C30_LoadingFlags ==
    /\ [](event.ended = "background" => ~historical_data_loading)
    /\ [](Accepting => ~historical_data_loading)
    /\ [][(historical_data_loaded' /\ ~historical_data_loaded)
             => /\ event'.ended = "background"
                /\ Len(event'.raised) = 0]_vars
    /\ [][(event'.ended = "background" /\ Len(event'.raised) = 0)
             => historical_data_loaded']_vars
    /\ historical_data_loading ~> ~historical_data_loading

\* the exception path: update_all_progress raised inside the background load
C30_Witness ==
    /\ event.ended = "background"
    /\ Len(event.raised) > 0
    /\ ~historical_data_loading
    /\ ~historical_data_loaded

\* the export of one boundary under one filter, in the current state
Export(b, streets_filter) ==
    get_streets(get_street_network(streets_gdf, segments_gdf,
                                   traveled_segments, b),
                streets_filter).features

StreetIds(rows) == {rows[k].street_id : k \in 1..Len(rows)}

\* C24: a street is tagged traveled exactly when one of its segments is in
\* traveled_segments; "traveled" gives only streets tagged true, "untraveled"
\* only streets tagged false; the two are disjoint and together make "all"
C24_ExportFilter ==
    (~streets_gdf.none /\ ~segments_gdf.none) =>
        \A b \in Boundaries :
            LET all == Export(b, "all")
                yes == Export(b, "traveled")
                no  == Export(b, "untraveled")
            IN  /\ \A k \in 1..Len(all) :
                      all[k].traveled <=>
                          \E r \in 1..Len(segments_gdf.rows) :
                              /\ segments_gdf.rows[r].street_id = all[k].street_id
                              /\ segments_gdf.rows[r].segment_id
                                    \in traveled_segments
                /\ \A k \in 1..Len(yes) : yes[k].traveled
                /\ \A k \in 1..Len(no) : ~no[k].traveled
                /\ StreetIds(yes) \cap StreetIds(no) = {}
                /\ Range(yes) \cup Range(no) = Range(all)

\* inside one boundary one street is traveled and another is not
C24_Witness ==
    /\ ~segments_gdf.none
    /\ Len(Export(BoundaryAll, "traveled")) = 1
    /\ Len(Export(BoundaryAll, "untraveled")) = 1

\* initialize is over: the index is built
Initialized == task["main"].pc \notin {"initialize", "load_cache",
                                      "read_source", "save_open",
                                      "save_write", "failed"}

\* C26: once the engine is initialized every id in traveled_segments is the
\* segment_id of a row of segments_gdf
C26_TraveledAreSegments ==
    (Initialized /\ ~segments_gdf.none) =>
        traveled_segments \subseteq
            {segments_gdf.rows[k].segment_id : k \in 1..Len(segments_gdf.rows)}

ReadKinds == {"calculate_progress", "get_progress_geojson",
              "get_untraveled_streets", "waco_streets"}

\* C25: calculate_progress, get_progress_geojson, get_street_network and
\* get_untraveled_streets leave traveled_segments, the streets and the
\* segments, rows and stored columns, as they were
C25_ReadOnly ==
    [][event'.kind \in ReadKinds
         => UNCHANGED <<traveled_segments, streets_gdf, segments_gdf,
                        traveled_column>>]_vars

\* C25 without get_progress_geojson
C25_ReadOnlyOthers ==
    [][event'.kind \in ReadKinds \ {"get_progress_geojson"}
         => UNCHANGED <<traveled_segments, streets_gdf, segments_gdf,
                        traveled_column>>]_vars

\* C29: a /waco_streets response carries the traveled flags of the current
\* traveled_segments
C29_NeverStale ==
    event.kind = "waco_streets" =>
        event.response.body = Export(event.response.key[1],
                                     event.response.key[2])

====
